---- MODULE Spec2Model ----
(***************************************************************************)
(* Gesture-controlled photo tree (App.tsx, HandTrackerUI.tsx, Experience,  *)
(* PhotoItem).  The model holds App's React state (appState, photos,       *)
(* gesture, selectedPhotoId, isCameraActive), the hand tracker's setup     *)
(* and teardown (hands, camera, the onResults callback with the onGesture  *)
(* closure it captured), Experience's photo-selection effect with the      *)
(* dependency array React keeps for it, and the per-frame easing of the    *)
(* particles and photos.                                                   *)
(*                                                                         *)
(* A step of the model is one event with the render it causes: a tracker   *)
(* result, a click, an upload, a frame.  React runs a render's effect      *)
(* before it handles the next event, so while the photo-selection effect   *)
(* is pending (its dependencies differ from those of its last run) only    *)
(* that effect can step.  The effect's own state updates cause a render    *)
(* and hence one more (idle) run of the effect.                            *)
(*                                                                         *)
(* Positions are the y component of the THREE.Vector3 (lerp acts on each   *)
(* component with the same alpha), in fixed point: Scale units per world   *)
(* unit.  Frame deltas are in milliseconds, blend factors in per mille.    *)
(* Camera steering, group rotation, colours and the eased scale VALUE are  *)
(* not state of the model; the scale TARGET each photo eases to is.        *)
(***************************************************************************)
EXTENDS Integers, Sequences, FiniteSets

VARIABLES
    appState,         \* App: useState<AppState>(AppState.CLOSED)
    photos,           \* App: useState<PhotoData[]>([]), the ids in order
    gesture,          \* App: useState<HandGesture | null>(null), the latched descriptor
    selectedPhotoId,  \* App: useState<string | null>(null)
    isCameraActive,   \* App: useState(false)
    phase,            \* HandTrackerUI: "init" (rendered, effect not run), "mounted", "unmounted"
    hands,            \* HandTrackerUI effect: let hands  ("null", "open", "closed")
    camera,           \* HandTrackerUI effect: let camera ("null", "created", "running", "stopped")
    onResultsCb,      \* the callback given to hands.onResults: registered?, appState its onGesture closed over
    isLoading,        \* HandTrackerUI: useState(true)
    error,            \* HandTrackerUI: useState<string | null>(null), as "is set"
    effectDeps,       \* the dependency array React holds for the photo-selection effect
    particlePos,      \* instance matrices of the particles: position y
    particleScatter,  \* Experience scatterPositions (useMemo)
    photoPos,         \* PhotoItem meshRef.current.position y, per photo id
    photoScatter,     \* PhotoItem scatterPos (useMemo, []), per photo id
    aim,              \* what the last frame eased each item toward (reset by every other step)
    frames,           \* frames rendered so far
    lastOp,           \* the step last taken
    rep,              \* identical descriptors delivered in a row (0: none, capped at 2)
    noHandRun         \* "none", or inside a run of no-hand camera frames: "quiet" / "armed"

vars == <<appState, photos, gesture, selectedPhotoId, isCameraActive, phase, hands,
          camera, onResultsCb, isLoading, error, effectDeps, particlePos,
          particleScatter, photoPos, photoScatter, aim, frames, lastOp, rep, noHandRun>>

----------------------------------------------------------------------------
(* Bounds of the model *)

MaxPhotos == 2    \* photos ever uploaded
MaxFrames == 1    \* frames rendered
Scale == 1000     \* fixed-point units per world unit

\* The particles whose position the model follows (indices i of 0..count-1)
Particles == {175}

(* Program constants *)

count == 350            \* Experience: decorative particles
height == 10            \* Experience: tree height
PhotoTreeHeight == 8    \* PhotoItem treePos: (index / total) * 8 - 4
FistSpan == 12          \* analyzeFist: avgDist < 0.12      (hundredths)
OpenSpan == 25          \* analyzeOpenHand: avgDist > 0.25
PinchDist == 5          \* analyzeGrabbing: dist < 0.05
ParticleRate == 25      \* dummy.position.lerp(target, delta * 2.5)   (tenths)
PhotoRate == 30         \* position.lerp(target, delta * 3)
BobAmplitude == 5       \* Math.sin(..) * 0.005                       (thousandths)
ZoomedScale == 0        \* scale.lerp(Vector3(0, 0, 0), ..)           (tenths)
ScatteredScale == 25    \* scale.lerp(Vector3(2.5, 2.5, 1), ..)
TreeScale == 12         \* scale.lerp(Vector3(1.2, 1.2, 1), ..)

NULL == "null"
PhotoIdPool == <<"p1", "p2", "p3", "p4">>   \* Math.random().toString(36).substr(2, 9)

Abs(x) == IF x < 0 THEN -x ELSE x
\* Division rounding toward zero
TruncDiv(a, b) == IF a >= 0 THEN a \div b ELSE -((-a) \div b)

----------------------------------------------------------------------------
(* Hand tracker: results, gesture analysis *)

\* A landmark set, reduced to what the analysis reads: the four tip-to-base
\* distances dist(lm[tip], lm[bases[i]]) and the thumb-tip-to-index-tip distance,
\* in hundredths of the normalised image size.
HandShapes ==
    { [span |-> << 5,  5,  5,  5>>, pinch |-> 10],    \* clenched
      [span |-> << 5,  5,  5,  5>>, pinch |->  3],    \* clenched, thumb on index
      [span |-> <<30, 30, 30, 30>>, pinch |-> 20],    \* open palm
      [span |-> <<10, 35, 35, 35>>, pinch |->  2],    \* three fingers out, index on thumb
      [span |-> <<15, 20, 20, 20>>, pinch |->  3],    \* relaxed pinch
      [span |-> <<20, 20, 20, 20>>, pinch |-> 10] }   \* relaxed

Results == { [multiHandLandmarks |-> <<>>] }
             \cup { [multiHandLandmarks |-> <<lm>>] : lm \in HandShapes }

\* avgDist = sum / 4, compared without the division
SpanSum(lm) == lm.span[1] + lm.span[2] + lm.span[3] + lm.span[4]
analyzeFist(lm) == SpanSum(lm) < 4 * FistSpan
analyzeOpenHand(lm) == SpanSum(lm) > 4 * OpenSpan
analyzeGrabbing(lm) == lm.pinch < PinchDist

NoGesture == [present |-> FALSE, isFist |-> FALSE, isOpen |-> FALSE, isGrabbing |-> FALSE]

\* The descriptor onResults builds from landmarks[0]
Descriptor(lm) ==
    [present |-> TRUE, isFist |-> analyzeFist(lm), isOpen |-> analyzeOpenHand(lm),
     isGrabbing |-> analyzeGrabbing(lm)]

HasHand(results) == Len(results.multiHandLandmarks) > 0

\* App.onGesture's state transitions; closedOver is the appState of the render
\* whose onGesture the caller holds.  Returns the new (appState, selectedPhotoId).
onGesture(closedOver, newGesture, mode, sel) ==
    IF newGesture.isFist /\ closedOver # "CLOSED"
    THEN [appState |-> "CLOSED", selectedPhotoId |-> NULL]
    ELSE IF newGesture.isOpen /\ closedOver = "CLOSED"
    THEN [appState |-> "SCATTERED", selectedPhotoId |-> sel]
    ELSE [appState |-> mode, selectedPhotoId |-> sel]

----------------------------------------------------------------------------
(* Experience: the photo-selection effect *)

\* gesture?.isGrabbing
GrabDep(g) == IF ~g.present THEN "undefined" ELSE IF g.isGrabbing THEN "true" ELSE "false"

\* [gesture?.isGrabbing, photos, appState, selectedPhotoId]
Deps(g, ph, mode, sel) == <<GrabDep(g), ph, mode, sel>>

EffectPending == effectDeps # Deps(gesture, photos, appState, selectedPhotoId)

\* Faulty variant: the effect selects the photo and forgets setAppState(AppState.ZOOMED)
SelectionEffectKeepsMode(g, ph, mode, sel) ==
    IF g.present /\ g.isGrabbing /\ mode = "SCATTERED" /\ sel = NULL /\ Len(ph) > 0
    THEN [appState |-> mode, selectedPhotoId |-> ph[1]]
    ELSE [appState |-> mode, selectedPhotoId |-> sel]

\* Faulty variant: the effect does not test appState === AppState.SCATTERED
SelectionEffectAnyMode(g, ph, mode, sel) ==
    IF g.present /\ g.isGrabbing /\ sel = NULL /\ Len(ph) > 0
    THEN [appState |-> "ZOOMED", selectedPhotoId |-> ph[1]]
    ELSE [appState |-> mode, selectedPhotoId |-> sel]

\* The effect's body: the new (appState, selectedPhotoId)
SelectionEffect(g, ph, mode, sel) ==
    IF g.present /\ g.isGrabbing /\ mode = "SCATTERED" /\ sel = NULL /\ Len(ph) > 0
    THEN [appState |-> "ZOOMED", selectedPhotoId |-> ph[1]]
    ELSE [appState |-> mode, selectedPhotoId |-> sel]

----------------------------------------------------------------------------
(* Layout targets and easing *)

PhotoSet == {photos[k] : k \in 1..Len(photos)}
IndexOf(id) == (CHOOSE k \in 1..Len(photos) : photos[k] = id) - 1

\* Experience treePositions[i].y = (i / count) * height - height / 2, i from 0
treePositions(i) == TruncDiv(i * height * Scale, count) - TruncDiv(height * Scale, 2)

\* (Math.random() - 0.5) * 30 and * 20: the values the model draws from
ParticleScatterChoices == {-12 * Scale, 9 * Scale}
PhotoScatterChoices == {-7 * Scale, 6 * Scale}

\* PhotoItem treePos.y = (index / total) * 8 - 4
treePos(index, total) ==
    TruncDiv(index * PhotoTreeHeight * Scale, total) - TruncDiv(PhotoTreeHeight * Scale, 2)

\* Faulty variant: isScattered={appState === AppState.SCATTERED}
isScatteredOnlyInScattered(mode) == mode = "SCATTERED"

\* Experience passes isScattered={appState !== AppState.CLOSED}
isScattered(mode) == mode # "CLOSED"

\* Experience currentTargets, as the kind of target chosen
currentTargets(mode) == IF mode = "CLOSED" THEN "tree" ELSE "scatter"

\* THREE.Vector3.lerp(v, alpha): this.y += (v.y - this.y) * alpha, alpha in per mille
lerp(x, target, alphaPM) == x + TruncDiv((target - x) * alphaPM, 1000)

\* delta * rate: rate in tenths per second, delta in milliseconds, result per mille
Alpha(rate10, deltaMs) == (rate10 * deltaMs) \div 10

\* Math.sin(state.clock.elapsedTime + i), the phase counted in quarter periods
SinQ(q) == CASE q % 4 = 0 -> 0 [] q % 4 = 1 -> 1 [] q % 4 = 2 -> 0 [] OTHER -> -1

\* The frame deltas (ms) and clock phases the model draws from
Deltas == {100, 1000}
ClockPhases == {0, 1}

ParticleTarget(i, mode) ==
    IF currentTargets(mode) = "tree" THEN treePositions(i) ELSE particleScatter[i]

\* Experience useFrame, step 1, for particle i
ParticleStep(i, mode, deltaMs, q) ==
    LET moved == lerp(particlePos[i], ParticleTarget(i, mode), Alpha(ParticleRate, deltaMs))
    IN  IF mode = "SCATTERED"
        THEN moved + TruncDiv(SinQ(q + i) * BobAmplitude * Scale, 1000)
        ELSE moved

PhotoTargetKind(mode) == IF isScattered(mode) THEN "scatter" ELSE "tree"

PhotoTarget(id, mode) ==
    IF PhotoTargetKind(mode) = "scatter" THEN photoScatter[id]
    ELSE treePos(IndexOf(id), Len(photos))

\* PhotoItem useFrame: a zoomed photo only eases its scale and returns
PhotoStep(id, mode, sel, deltaMs) ==
    IF sel = id THEN photoPos[id]
    ELSE lerp(photoPos[id], PhotoTarget(id, mode), Alpha(PhotoRate, deltaMs))

PhotoAim(id, mode, sel) == IF sel = id THEN "none" ELSE PhotoTargetKind(mode)

PhotoScaleTarget(id, mode, sel) ==
    IF sel = id THEN ZoomedScale
    ELSE IF isScattered(mode) THEN ScatteredScale ELSE TreeScale

NoAim == [particle |-> [i \in Particles |-> "none"], photo |-> <<>>, scale |-> <<>>]

----------------------------------------------------------------------------
(* Scatter targets of photo items: useMemo(() => ..., []) of each keyed
   PhotoItem instance; picks are the draws of the instances being mounted.
   MountPhotoItemsRedrawn is the faulty variant in which a mount draws every item's
   target anew. *)
MountPhotoItemsRedrawn(old, picks) ==
    [id \in (DOMAIN old) \cup (DOMAIN picks) |->
        IF id \in DOMAIN picks THEN picks[id] ELSE picks[CHOOSE j \in DOMAIN picks : TRUE]]

MountPhotoItems(old, picks) ==
    [id \in (DOMAIN old) \cup (DOMAIN picks) |->
        IF id \in DOMAIN old THEN old[id] ELSE picks[id]]

\* Faulty variant: the cleanup does not stop the camera
CleanupCameraKeeps(cam) == cam

\* HandTrackerUI effect cleanup: if (camera) camera.stop()
CleanupCamera(cam) == IF cam # "null" THEN "stopped" ELSE cam
\* if (hands) hands.close()
CleanupHands(h) == IF h # "null" THEN "closed" ELSE h

----------------------------------------------------------------------------
Init ==
    /\ appState = "CLOSED"
    /\ photos = <<>>
    /\ gesture = NoGesture
    /\ selectedPhotoId = NULL
    /\ isCameraActive = FALSE
    /\ phase = "init"
    /\ hands = "null"
    /\ camera = "null"
    /\ onResultsCb = [registered |-> FALSE, appState |-> "CLOSED"]
    /\ isLoading = TRUE
    /\ error = FALSE
    /\ effectDeps = <<>>
    /\ particlePos = [i \in Particles |-> treePositions(i)]
    /\ particleScatter \in [Particles -> ParticleScatterChoices]
    /\ photoPos = <<>>
    /\ photoScatter = <<>>
    /\ aim = NoAim
    /\ frames = 0
    /\ lastOp = "init"
    /\ rep = 0
    /\ noHandRun = "none"

appVars == <<appState, photos, gesture, selectedPhotoId>>
trackerVars == <<phase, hands, camera, onResultsCb, isLoading, error, isCameraActive>>
sceneVars == <<particlePos, particleScatter, photoPos, photoScatter, frames>>

SetupSteps == {"newHands", "setOptions", "onResults", "newCamera", "start"}

\* HandTrackerUI useEffect(.., []): setupMediaPipe runs to its end or to the
\* step that throws (failAt); nothing in it awaits.
Mount ==
    /\ phase = "init"
    /\ \E failAt \in SetupSteps \cup {"none"} :
        /\ hands' = IF failAt = "newHands" THEN "null" ELSE "open"
        /\ onResultsCb' = [registered |-> failAt \notin {"newHands", "setOptions", "onResults"},
                           appState |-> appState]
        /\ camera' = IF failAt \in {"newHands", "setOptions", "onResults", "newCamera"}
                     THEN "null"
                     ELSE IF failAt = "start" THEN "created" ELSE "running"
        /\ isLoading' = (failAt # "none")
        /\ isCameraActive' = (failAt = "none")
        /\ error' = (failAt # "none")
    /\ phase' = "mounted"
    /\ lastOp' = "mount"
    /\ aim' = NoAim
    /\ UNCHANGED <<appVars, effectDeps, sceneVars, rep, noHandRun>>

\* The effect's cleanup
Unmount ==
    /\ phase = "mounted"
    /\ ~EffectPending
    /\ camera' = CleanupCamera(camera)
    /\ hands' = CleanupHands(hands)
    /\ phase' = "unmounted"
    /\ lastOp' = "unmount"
    /\ aim' = NoAim
    /\ UNCHANGED <<appVars, onResultsCb, isLoading, error, isCameraActive, effectDeps,
                   sceneVars, rep, noHandRun>>

\* camera.onFrame -> hands.send -> the onResults callback
OnResults ==
    /\ phase = "mounted"
    /\ camera = "running"
    /\ onResultsCb.registered
    /\ ~EffectPending
    /\ \E results \in Results :
        IF HasHand(results)
        THEN LET newGesture == Descriptor(results.multiHandLandmarks[1])
                 next == onGesture(onResultsCb.appState, newGesture, appState, selectedPhotoId)
             IN  /\ gesture' = newGesture
                 /\ appState' = next.appState
                 /\ selectedPhotoId' = next.selectedPhotoId
                 /\ rep' = IF rep >= 1 /\ gesture = newGesture THEN 2 ELSE 1
                 /\ noHandRun' = "none"
                 /\ lastOp' = "gesture"
        ELSE /\ UNCHANGED <<gesture, appState, selectedPhotoId>>
             /\ rep' = 0
             /\ noHandRun' = IF noHandRun = "none" THEN "quiet" ELSE noHandRun
             /\ lastOp' = "nohand"
    /\ aim' = NoAim
    /\ UNCHANGED <<photos, trackerVars, effectDeps, sceneVars>>

\* Experience useEffect(.., [gesture?.isGrabbing, photos, appState, selectedPhotoId])
RunSelectionEffect ==
    /\ phase # "unmounted"
    /\ EffectPending
    /\ LET next == SelectionEffect(gesture, photos, appState, selectedPhotoId)
       IN  /\ appState' = next.appState
           /\ selectedPhotoId' = next.selectedPhotoId
    /\ effectDeps' = Deps(gesture, photos, appState, selectedPhotoId)
    /\ lastOp' = "effect"
    /\ aim' = NoAim
    /\ UNCHANGED <<photos, gesture, trackerVars, sceneVars, rep, noHandRun>>

\* The modal's close button: onClick={() => setSelectedPhotoId(null)}
Deselect ==
    /\ phase = "mounted"
    /\ ~EffectPending
    /\ selectedPhotoId # NULL
    /\ selectedPhotoId' = NULL
    /\ rep' = 0
    /\ noHandRun' = "none"
    /\ lastOp' = "deselect"
    /\ aim' = NoAim
    /\ UNCHANGED <<appState, photos, gesture, trackerVars, effectDeps, sceneVars>>

\* App.handleFileUpload with n files; each new PhotoItem mounts at the origin
\* and draws its scatterPos
handleFileUpload ==
    /\ phase = "mounted"
    /\ ~EffectPending
    /\ \E n \in 1..(MaxPhotos - Len(photos)) :
        LET newIds == [k \in 1..n |-> PhotoIdPool[Len(photos) + k]]
            idSet == {newIds[k] : k \in 1..n}
        IN  /\ photos' = photos \o newIds
            /\ \E picks \in [idSet -> PhotoScatterChoices] :
                   photoScatter' = MountPhotoItems(photoScatter, picks)
            /\ photoPos' = [id \in PhotoSet \cup idSet |->
                               IF id \in PhotoSet THEN photoPos[id] ELSE 0]
    /\ rep' = 0
    /\ noHandRun' = IF noHandRun # "none" /\ appState = "SCATTERED" /\ selectedPhotoId = NULL
                       /\ gesture.present /\ gesture.isGrabbing
                    THEN "armed" ELSE noHandRun
    /\ lastOp' = "upload"
    /\ aim' = NoAim
    /\ UNCHANGED <<appState, gesture, selectedPhotoId, trackerVars, effectDeps,
                   particlePos, particleScatter, frames>>

\* One rendered frame: Experience useFrame (particles) and every PhotoItem useFrame
Frame ==
    /\ phase = "mounted"
    /\ ~EffectPending
    /\ frames < MaxFrames
    /\ \E deltaMs \in Deltas, q \in ClockPhases :
        /\ particlePos' = [i \in Particles |-> ParticleStep(i, appState, deltaMs, q)]
        /\ photoPos' = [id \in PhotoSet |-> PhotoStep(id, appState, selectedPhotoId, deltaMs)]
    /\ aim' = [particle |-> [i \in Particles |-> currentTargets(appState)],
               photo |-> [id \in PhotoSet |-> PhotoAim(id, appState, selectedPhotoId)],
               scale |-> [id \in PhotoSet |-> PhotoScaleTarget(id, appState, selectedPhotoId)]]
    /\ frames' = frames + 1
    /\ lastOp' = "frame"
    /\ UNCHANGED <<appVars, trackerVars, effectDeps, particleScatter, photoScatter,
                   rep, noHandRun>>

Next ==
    \/ Mount
    \/ Unmount
    \/ OnResults
    \/ RunSelectionEffect
    \/ Deselect
    \/ handleFileUpload
    \/ Frame

Spec == Init /\ [][Next]_vars

----------------------------------------------------------------------------
(* The claims *)

\* C1 (fist precedence): every descriptor with isFist = TRUE that onResults
\* delivers leaves, once processed, the mode Assembled (CLOSED) and no photo
\* selected, from any state and whatever its other flags.
C1_FistPrecedence ==
    [][(lastOp' = "gesture" /\ gesture'.isFist)
         => (appState' = "CLOSED" /\ selectedPhotoId' = NULL)]_vars

\* C2 (explicit deselect): closing the viewer while the mode is Zoomed with a
\* photo selected results in mode Scattered and no photo selected.
C2_DeselectReturnsToScattered ==
    [][(lastOp' = "deselect" /\ appState = "ZOOMED" /\ selectedPhotoId # NULL)
         => (appState' = "SCATTERED" /\ selectedPhotoId' = NULL)]_vars

\* C3 (Zoomed exit): in mode Zoomed, a delivered descriptor with isFist = FALSE
\* changes neither the mode nor the selected photo.
C3_ZoomedLeftOnlyByFist ==
    [][(lastOp' = "gesture" /\ ~gesture'.isFist /\ appState = "ZOOMED")
         => (appState' = appState /\ selectedPhotoId' = selectedPhotoId)]_vars

\* The state C4 is about: Scattered, nothing selected, a grabbing descriptor
\* (not a fist) latched
GrabLatched ==
    /\ appState = "SCATTERED"
    /\ selectedPhotoId = NULL
    /\ gesture.present /\ gesture.isGrabbing /\ ~gesture.isFist

\* After a frame in Zoomed: the selected photo, and only it, eases its scale to
\* (near) zero, every other photo to the scattered scale
OneZoomedScaleTarget ==
    (lastOp = "frame" /\ appState = "ZOOMED" /\ selectedPhotoId # NULL)
        => /\ \A id \in PhotoSet :
                aim.scale[id] = IF id = selectedPhotoId THEN ZoomedScale ELSE ScatteredScale
           /\ Cardinality({id \in PhotoSet : aim.scale[id] = ZoomedScale}) = 1

\* C4 as stated (grab selects and zooms): from Scattered with nothing selected
\* and a grabbing descriptor latched, the next step makes the mode Zoomed with
\* a photo selected; exactly that photo gets the near-zero scale target.
C4_GrabZooms_AsStated ==
    /\ [][GrabLatched => (appState' = "ZOOMED" /\ selectedPhotoId' # NULL)]_vars
    /\ []OneZoomedScaleTarget

\* C4 as amended: the same, provided the photo list is not empty.
C4_GrabZooms ==
    /\ [][(GrabLatched /\ Len(photos) > 0)
            => (appState' = "ZOOMED" /\ selectedPhotoId' # NULL)]_vars
    /\ []OneZoomedScaleTarget

C4_Witness ==
    /\ lastOp = "frame" /\ appState = "ZOOMED" /\ selectedPhotoId = photos[1]
    /\ Len(photos) = 2 /\ gesture.isGrabbing /\ ~gesture.isFist

\* C5 (idempotence): from the second delivery in a row of one descriptor on,
\* the mode and the selected photo no longer change (neither in the delivery
\* nor in the effect runs that follow it).
C5_Idempotence ==
    [][rep' = 2 => (appState' = appState /\ selectedPhotoId' = selectedPhotoId)]_vars

\* C6 as stated (no hand, no state update): during a run of camera frames that
\* report no hand, with no deselect in it but possibly photos added, the mode
\* and the selected photo stay as they were.
C6_NoHandKeepsState_AsStated ==
    [][noHandRun' # "none"
         => (appState' = appState /\ selectedPhotoId' = selectedPhotoId)]_vars

\* C6 as amended: the same, provided no photo is added during the run while the
\* mode is Scattered, nothing is selected and the latched descriptor is grabbing.
C6_NoHandKeepsState ==
    [][noHandRun' = "quiet"
         => (appState' = appState /\ selectedPhotoId' = selectedPhotoId)]_vars

\* A run in which a photo was added (the effect has just run for it), after a
\* frame was rendered
C6_Witness ==
    /\ noHandRun = "quiet" /\ lastOp = "effect" /\ frames > 0
    /\ Len(photos) > 0 /\ appState = "SCATTERED" /\ gesture.present

\* The position target the spec's rule gives an item in a mode
ActiveTarget(mode) == IF mode = "CLOSED" THEN "tree" ELSE "scatter"

OpenScatters ==
    [][(lastOp' = "gesture" /\ gesture'.isOpen /\ ~gesture'.isFist /\ appState = "CLOSED")
         => appState' = "SCATTERED"]_vars

\* C7 as stated (open scatters, the target follows the mode): an open
\* descriptor delivered in Assembled makes the mode Scattered, and every
\* particle and every photo is eased toward its tree target exactly in mode
\* Assembled and toward its scattered target otherwise.
C7_TargetFollowsMode_AsStated ==
    /\ OpenScatters
    /\ [](lastOp = "frame"
            => /\ \A i \in Particles : aim.particle[i] = ActiveTarget(appState)
               /\ \A id \in PhotoSet : aim.photo[id] = ActiveTarget(appState))

\* C7 as amended: the same for every particle and every photo but the selected
\* one, whose position is not eased toward any target.
C7_TargetFollowsMode ==
    /\ OpenScatters
    /\ [](lastOp = "frame"
            => /\ \A i \in Particles : aim.particle[i] = ActiveTarget(appState)
               /\ \A id \in PhotoSet \ {selectedPhotoId} :
                      aim.photo[id] = ActiveTarget(appState))

C7_Witness ==
    /\ lastOp = "frame" /\ appState = "ZOOMED" /\ Len(photos) = 2
    /\ selectedPhotoId = photos[1] /\ aim.photo[photos[2]] = "scatter"
    /\ gesture.isOpen

\* C8 (the camera is a scoped resource): after teardown the camera is not
\* running, and a camera that setup started has been stopped, whether setup
\* ran to its end or threw at some step.
C8_CameraReleased ==
    phase = "unmounted"
        => /\ camera # "running"
           /\ isCameraActive => camera = "stopped"
           /\ camera \in {"null", "stopped"}

C8_Witness == phase = "unmounted" /\ isCameraActive /\ camera = "stopped" /\ frames > 0

\* C9 (no overshoot): a frame leaves every eased item no farther from its
\* target than before and on the same side of it.
NoOvershoot(old, new, target) ==
    /\ Abs(target - new) <= Abs(target - old)
    /\ old <= target => new <= target
    /\ old >= target => new >= target

C9_NoOvershoot ==
    [][lastOp' = "frame"
         => /\ \A i \in Particles :
                  NoOvershoot(particlePos[i], particlePos'[i], ParticleTarget(i, appState))
            /\ \A id \in PhotoSet \ {selectedPhotoId} :
                  NoOvershoot(photoPos[id], photoPos'[id], PhotoTarget(id, appState))]_vars

\* C10 (scattered targets are stable): no step changes the scattered target of
\* a particle or of a photo that exists.
C10_ScatterTargetsStable ==
    [][/\ \A i \in Particles : particleScatter'[i] = particleScatter[i]
       /\ \A id \in DOMAIN photoScatter :
              id \in DOMAIN photoScatter' /\ photoScatter'[id] = photoScatter[id]]_vars

\* A second photo added after a frame moved the first, outside Assembled
C10_Witness ==
    /\ lastOp = "upload" /\ Len(photos) = 2 /\ frames > 0
    /\ photoPos[photos[1]] # 0 /\ photoPos[photos[2]] = 0
    /\ appState = "ZOOMED"

\* C11 (mode and selection agree): in every reachable state the mode is Zoomed
\* exactly when a photo is selected, and a selected photo id is the id of a
\* photo in the photo list.
C11_ModeSelectionConsistent ==
    /\ (appState = "ZOOMED") <=> (selectedPhotoId # NULL)
    /\ selectedPhotoId # NULL => selectedPhotoId \in PhotoSet

====
